---- MODULE Spec2Model ----
(***************************************************************************)
(* Model of bookstore_manager.py: the member, book and sale tables of      *)
(* bookstore.db and the operations add_sale, update_sale and delete_sale   *)
(* that the menu loop of main() runs against them.                         *)
(*                                                                         *)
(* A date string is a sequence of one-character strings, so that its       *)
(* length, its separators and its digits can be inspected as the code and  *)
(* datetime.strptime inspect them.                                         *)
(***************************************************************************)
EXTENDS Integers, Sequences, FiniteSets, TLC

(***************************************************************************)
(* Bounds of the model.                                                    *)
(***************************************************************************)
\* largest sale id the model lets AUTOINCREMENT hand out
MaxSid == 5

(***************************************************************************)
(* Inputs the callers may type.                                            *)
(***************************************************************************)
\* the program instances working on bookstore.db; Main is the one menu loop
\* the single-caller specification runs
Callers == {1, 2}
Main == 1

Date_2024_02_01 == <<"2", "0", "2", "4", "-", "0", "2", "-", "0", "1">>
Date_2024_02_30 == <<"2", "0", "2", "4", "-", "0", "2", "-", "3", "0">>

Dates == {Date_2024_02_01, Date_2024_02_30}
Mids == {"M001", "M999"}
Bids == {"B001", "B999"}
Qtys == {0, 2, 50, 51}
Discounts == {-1, 100, 1300}
NewDiscounts == {-1, 50}
\* points of the try block of add_sale / update_sale / delete_sale at which
\* sqlite3 may raise sqlite3.Error ("none": it does not)
AddFaults == {"none", "insert", "update", "commit"}
UpdateFaults == {"none", "select", "update", "commit"}
DeleteFaults == {"none", "delete", "commit"}

\* what input() returns at a numeric prompt: nothing, a text int() rejects,
\* or the digits of an integer
Enter == [kind |-> "empty", n |-> 0]
Text == [kind |-> "text", n |-> 0]
Int_(n) == [kind |-> "int", n |-> n]
ChoiceInputs(len) == {Enter, Text} \cup {Int_(n) : n \in 0..(len + 1)}
DiscountInputs == {Text} \cup {Int_(n) : n \in NewDiscounts}

(***************************************************************************)
(* validate_date and datetime.strptime(sdate, "%Y-%m-%d").                 *)
(***************************************************************************)
DATE_FORMAT == <<"%Y", "-", "%m", "-", "%d">>

Digits == {"0", "1", "2", "3", "4", "5", "6", "7", "8", "9"}

DigitVal(c) ==
  CASE c = "0" -> 0 [] c = "1" -> 1 [] c = "2" -> 2 [] c = "3" -> 3
    [] c = "4" -> 4 [] c = "5" -> 5 [] c = "6" -> 6 [] c = "7" -> 7
    [] c = "8" -> 8 [] c = "9" -> 9

\* s[i] exists and is one of the characters of set
CharIn(s, i, set) == i >= 1 /\ i <= Len(s) /\ s[i] \in set

\* str.count(ch)
count(s, ch) == Cardinality({i \in 1..Len(s) : s[i] = ch})

\* %m is the regex 1[0-2]|0[1-9]|[1-9]: the lengths it can consume at
\* position p, in the order the alternatives are tried
MonthLens(s, p) ==
  (IF \/ CharIn(s, p, {"1"}) /\ CharIn(s, p + 1, {"0", "1", "2"})
      \/ CharIn(s, p, {"0"}) /\ CharIn(s, p + 1, Digits \ {"0"})
   THEN <<2>> ELSE <<>>)
  \o (IF CharIn(s, p, Digits \ {"0"}) THEN <<1>> ELSE <<>>)

\* %d is the regex 3[0-1]|[1-2]\d|0[1-9]|[1-9]| [1-9]
DayLens(s, p) ==
  (IF \/ CharIn(s, p, {"3"}) /\ CharIn(s, p + 1, {"0", "1"})
      \/ CharIn(s, p, {"1", "2"}) /\ CharIn(s, p + 1, Digits)
      \/ CharIn(s, p, {"0"}) /\ CharIn(s, p + 1, Digits \ {"0"})
   THEN <<2>> ELSE <<>>)
  \o (IF CharIn(s, p, Digits \ {"0"}) THEN <<1>> ELSE <<>>)
  \o (IF CharIn(s, p, {" "}) /\ CharIn(s, p + 1, Digits \ {"0"})
      THEN <<2>> ELSE <<>>)

\* the ways the rest of the format, "-%d", matches after a month of ml
\* characters, in the order the regex engine tries them
ParsesFor(s, ml) ==
  IF CharIn(s, 6 + ml, {"-"})
  THEN [i \in 1..Len(DayLens(s, 7 + ml)) |-> <<ml, DayLens(s, 7 + ml)[i]>>]
  ELSE <<>>

\* all matches of (\d\d\d\d)-(%m)-(%d) at the start of s, first one first
Parses(s) ==
  IF (\A i \in 1..4 : CharIn(s, i, Digits)) /\ CharIn(s, 5, {"-"})
  THEN LET ms == MonthLens(s, 6)
       IN  IF Len(ms) = 0 THEN <<>>
           ELSE IF Len(ms) = 1 THEN ParsesFor(s, ms[1])
           ELSE ParsesFor(s, ms[1]) \o ParsesFor(s, ms[2])
  ELSE <<>>

\* int() of the len characters of s at p (one or two digits, or " " digit)
IntAt(s, p, len) ==
  IF len = 1 THEN DigitVal(s[p])
  ELSE IF s[p] = " " THEN DigitVal(s[p + 1])
  ELSE 10 * DigitVal(s[p]) + DigitVal(s[p + 1])

IsLeap(y) == (y % 4 = 0) /\ ((y % 100 # 0) \/ (y % 400 = 0))

DaysInMonth(y, m) ==
  IF m = 2 THEN (IF IsLeap(y) THEN 29 ELSE 28)
  ELSE IF m \in {4, 6, 9, 11} THEN 30 ELSE 31

\* TRUE iff datetime.strptime(s, DATE_FORMAT) returns without ValueError
strptime(s) ==
  LET ps == Parses(s)
  IN  /\ Len(ps) > 0
      /\ LET ml   == ps[1][1]
             dl   == ps[1][2]
             year == 1000 * DigitVal(s[1]) + 100 * DigitVal(s[2])
                       + 10 * DigitVal(s[3]) + DigitVal(s[4])
             mon  == IntAt(s, 6, ml)
             day  == IntAt(s, 7 + ml, dl)
         IN  /\ 6 + ml + dl = Len(s)        \* else "unconverted data remains"
             /\ year >= 1                   \* datetime.MINYEAR
             /\ day <= DaysInMonth(year, mon)

validate_date(sdate) ==
  IF Len(sdate) # 10 \/ count(sdate, "-") # 2
  THEN FALSE
  ELSE strptime(sdate)

(***************************************************************************)
(* The database: the committed contents of bookstore.db.                   *)
(*   member : mid -> [mname, mphone, memail]                               *)
(*   book   : bid -> [btitle, bprice, bstock]                              *)
(*   sale   : set of rows [sid, sdate, mid, bid, sqty, sdiscount, stotal]  *)
(*   seq    : the sqlite_sequence entry of sale (AUTOINCREMENT)            *)
(***************************************************************************)
VARIABLES
  db,      \* committed contents of the database file
  pc,      \* pc[c]: where caller c is ("menu" between operations)
  args,    \* args[c]: the arguments caller c passes to add_sale
  sales,   \* sales[c]: the list update_sale / delete_sale fetched and printed
  sid,     \* sid[c]: the sale id resolved from the choice
  ret      \* ret[c]: what the operation of caller c returned or printed last

vars == <<db, pc, args, sales, sid, ret>>

DB_NAME == [member |-> <<>>, book |-> <<>>, sale |-> {}, seq |-> 0]

SeedMembers ==
  ("M001" :> [mname |-> "Alice", mphone |-> "0912-345678", memail |-> "alice@example.com"])
  @@ ("M002" :> [mname |-> "Bob", mphone |-> "0923-456789", memail |-> "bob@example.com"])
  @@ ("M003" :> [mname |-> "Cathy", mphone |-> "0934-567890", memail |-> "cathy@example.com"])

SeedBooks ==
  ("B001" :> [btitle |-> "Python Programming", bprice |-> 600, bstock |-> 50])
  @@ ("B002" :> [btitle |-> "Data Science Basics", bprice |-> 800, bstock |-> 30])
  @@ ("B003" :> [btitle |-> "Machine Learning Guide", bprice |-> 1200, bstock |-> 20])

Jan(d1, d2) == <<"2", "0", "2", "4", "-", "0", "1", "-", d1, d2>>

SeedSales ==
  << [sdate |-> Jan("1", "5"), mid |-> "M001", bid |-> "B001", sqty |-> 2, sdiscount |-> 100, stotal |-> 1100],
     [sdate |-> Jan("1", "6"), mid |-> "M002", bid |-> "B002", sqty |-> 1, sdiscount |-> 50, stotal |-> 750],
     [sdate |-> Jan("1", "7"), mid |-> "M001", bid |-> "B003", sqty |-> 3, sdiscount |-> 200, stotal |-> 3400],
     [sdate |-> Jan("1", "8"), mid |-> "M003", bid |-> "B001", sqty |-> 1, sdiscount |-> 0, stotal |-> 600] >>

Max(a, b) == IF a >= b THEN a ELSE b

MaxRowid(d) ==
  IF d.sale = {} THEN 0
  ELSE CHOOSE m \in {s.sid : s \in d.sale} : \A s \in d.sale : s.sid <= m

\* sid INTEGER PRIMARY KEY without AUTOINCREMENT: one more than the largest
\* id that is stored now
NextSid_MaxRowid(d) == MaxRowid(d) + 1

\* sid INTEGER PRIMARY KEY AUTOINCREMENT: one more than the largest id ever used
NextSid(d) == Max(d.seq, MaxRowid(d)) + 1

\* INSERT INTO sale (sdate, mid, bid, sqty, sdiscount, stotal) VALUES (...)
InsertSale(d, sdate, mid, bid, sqty, sdiscount, stotal) ==
  [d EXCEPT !.sale = @ \cup {[sid |-> NextSid(d), sdate |-> sdate, mid |-> mid,
                               bid |-> bid, sqty |-> sqty,
                               sdiscount |-> sdiscount, stotal |-> stotal]},
            !.seq = NextSid(d)]

RECURSIVE InsertSales(_, _)
InsertSales(d, rows) ==
  IF rows = <<>> THEN d
  ELSE InsertSales(InsertSale(d, rows[1].sdate, rows[1].mid, rows[1].bid,
                              rows[1].sqty, rows[1].sdiscount, rows[1].stotal),
                   Tail(rows))

\* CREATE TABLE IF NOT EXISTS ...; INSERT OR IGNORE INTO member / book / sale
initialize_db(d) ==
  InsertSales([d EXCEPT !.member = @ @@ SeedMembers, !.book = @ @@ SeedBooks],
              SeedSales)

\* SELECT mid FROM member WHERE mid = ?
SelectMember(d, mid) == mid \in DOMAIN d.member

\* SELECT bprice, bstock FROM book WHERE bid = ?  (is there a row)
SelectBook(d, bid) == bid \in DOMAIN d.book

\* the UPDATE without its WHERE clause: every book loses the quantity
UpdateBookStock_NoWhere(d, sqty, bid) ==
  [d EXCEPT !.book = [b \in DOMAIN @ |-> [@[b] EXCEPT !.bstock = @ - sqty]]]

\* the UPDATE guarded by the stock: ... WHERE bid = ? AND bstock >= ?
UpdateBookStock_Conditional(d, sqty, bid) ==
  [d EXCEPT !.book = [b \in DOMAIN @ |->
                        IF b = bid /\ @[b].bstock >= sqty
                        THEN [@[b] EXCEPT !.bstock = @ - sqty]
                        ELSE @[b]]]

\* UPDATE book SET bstock = bstock - ? WHERE bid = ?
UpdateBookStock(d, sqty, bid) ==
  [d EXCEPT !.book = [b \in DOMAIN @ |->
                        IF b = bid THEN [@[b] EXCEPT !.bstock = @ - sqty]
                        ELSE @[b]]]

\* the checks of add_sale on quantity, stock and discount
InvalidQuantity_OffByOne(sqty) == sqty < 0
InvalidQuantity(sqty) == sqty <= 0
\* the stock check one too lenient
InsufficientStock_OffByOne(sqty, bstock) == sqty > bstock + 1
\* the stock check refusing to sell the last copies
InsufficientStock_Strict(sqty, bstock) == sqty >= bstock
InsufficientStock(sqty, bstock) == sqty > bstock
\* the discount check letting -1 through
InvalidDiscount_OffByOne(sdiscount) == sdiscount < -1
InvalidDiscount(sdiscount) == sdiscount < 0

\* the total clamped at zero
Total_Clamped(bprice, sqty, sdiscount) == Max(0, (bprice * sqty) - sdiscount)

\* stotal = (bprice * sqty) - sdiscount
Total(bprice, sqty, sdiscount) == (bprice * sqty) - sdiscount

\* conn.commit(): the statements executed so far (working) become the
\* contents of the file
Commit(committed, working) == working

\* the except branch without conn.rollback(): leaving "with conn" commits
\* whatever the failed try block had already executed
Rollback_Missing(committed, working) == working

\* conn.rollback() in the except branch: the statements executed so far are
\* discarded, so the commit on leaving "with conn" has nothing to write
Rollback(committed, working) == committed

Result(d, kind, val, err) == [db |-> d, kind |-> kind, val |-> val, err |-> err]

\* add_sale with the discount check moved in front of the quantity checks
add_sale_body_DiscountFirst(d, sdate, mid, bid, sqty, sdiscount, fault) ==
  IF ~validate_date(sdate) THEN Result(d, "InvalidDate", 0, "")
  ELSE IF ~SelectMember(d, mid) THEN Result(d, "InvalidReference", 0, "")
  ELSE IF ~SelectBook(d, bid) THEN Result(d, "InvalidReference", 0, "")
  ELSE
    LET bprice == d.book[bid].bprice
        bstock == d.book[bid].bstock
    IN  IF InvalidDiscount(sdiscount) THEN Result(d, "InvalidDiscount", 0, "")
        ELSE IF InvalidQuantity(sqty) THEN Result(d, "InvalidQuantity", 0, "")
        ELSE IF InsufficientStock(sqty, bstock)
             THEN Result(d, "InsufficientStock", bstock, "")
        ELSE
          LET stotal == Total(bprice, sqty, sdiscount)
              w1 == InsertSale(d, sdate, mid, bid, sqty, sdiscount, stotal)
              w2 == UpdateBookStock(w1, sqty, bid)
          IN  CASE fault = "insert" -> Result(Rollback(d, d), "PersistenceError", 0, fault)
                [] fault = "update" -> Result(Rollback(d, w1), "PersistenceError", 0, fault)
                [] fault = "commit" -> Result(Rollback(d, w2), "PersistenceError", 0, fault)
                [] OTHER -> Result(Commit(d, w2), "Created", stotal, "")

\* add_sale with the discount checked only after the INSERT: the early return
\* leaves "with conn", which commits the inserted row
add_sale_body_LateDiscountCheck(d, sdate, mid, bid, sqty, sdiscount, fault) ==
  IF ~validate_date(sdate) THEN Result(d, "InvalidDate", 0, "")
  ELSE IF ~SelectMember(d, mid) THEN Result(d, "InvalidReference", 0, "")
  ELSE IF ~SelectBook(d, bid) THEN Result(d, "InvalidReference", 0, "")
  ELSE
    LET bprice == d.book[bid].bprice
        bstock == d.book[bid].bstock
    IN  IF InvalidQuantity(sqty) THEN Result(d, "InvalidQuantity", 0, "")
        ELSE IF InsufficientStock(sqty, bstock)
             THEN Result(d, "InsufficientStock", bstock, "")
        ELSE
          LET stotal == Total(bprice, sqty, sdiscount)
              w1 == InsertSale(d, sdate, mid, bid, sqty, sdiscount, stotal)
              w2 == UpdateBookStock(w1, sqty, bid)
          IN  CASE fault = "insert" -> Result(Rollback(d, d), "PersistenceError", 0, fault)
                [] InvalidDiscount(sdiscount) -> Result(Commit(d, w1), "InvalidDiscount", 0, "")
                [] fault = "update" -> Result(Rollback(d, w1), "PersistenceError", 0, fault)
                [] fault = "commit" -> Result(Rollback(d, w2), "PersistenceError", 0, fault)
                [] OTHER -> Result(Commit(d, w2), "Created", stotal, "")

\* add_sale(conn, sdate, mid, bid, sqty, sdiscount); fault is the statement of
\* the try block at which sqlite3.Error is raised, if any
add_sale_body(d, sdate, mid, bid, sqty, sdiscount, fault) ==
  IF ~validate_date(sdate) THEN Result(d, "InvalidDate", 0, "")
  ELSE IF ~SelectMember(d, mid) THEN Result(d, "InvalidReference", 0, "")
  ELSE IF ~SelectBook(d, bid) THEN Result(d, "InvalidReference", 0, "")
  ELSE
    LET bprice == d.book[bid].bprice
        bstock == d.book[bid].bstock
    IN  IF InvalidQuantity(sqty) THEN Result(d, "InvalidQuantity", 0, "")
        ELSE IF InsufficientStock(sqty, bstock)
             THEN Result(d, "InsufficientStock", bstock, "")
        ELSE IF InvalidDiscount(sdiscount) THEN Result(d, "InvalidDiscount", 0, "")
        ELSE
          LET stotal == Total(bprice, sqty, sdiscount)
              w1 == InsertSale(d, sdate, mid, bid, sqty, sdiscount, stotal)
              w2 == UpdateBookStock(w1, sqty, bid)
          IN  CASE fault = "insert" -> Result(Rollback(d, d), "PersistenceError", 0, fault)
                [] fault = "update" -> Result(Rollback(d, w1), "PersistenceError", 0, fault)
                [] fault = "commit" -> Result(Rollback(d, w2), "PersistenceError", 0, fault)
                [] OTHER -> Result(Commit(d, w2), "Created", stotal, "")

NoArgs == [sdate |-> <<>>, mid |-> "", bid |-> "", sqty |-> 0, sdiscount |-> 0]

Ret(op, kind, val, err) == [op |-> op, kind |-> kind, val |-> val, err |-> err]
NoRet == Ret("", "", 0, "")

Init ==
  /\ db = initialize_db(DB_NAME)
  /\ pc = [c \in Callers |-> "menu"]
  /\ args = [c \in Callers |-> NoArgs]
  /\ sales = [c \in Callers |-> <<>>]
  /\ sid = [c \in Callers |-> 0]
  /\ ret = [c \in Callers |-> NoRet]

\* menu choice 1: the caller gathers the five arguments and calls add_sale
call_add_sale(c) ==
  /\ pc[c] = "menu"
  /\ \E sdate \in Dates, mid \in Mids, bid \in Bids, sqty \in Qtys,
        sdiscount \in Discounts :
       args' = [args EXCEPT ![c] = [sdate |-> sdate, mid |-> mid, bid |-> bid,
                                    sqty |-> sqty, sdiscount |-> sdiscount]]
  /\ pc' = [pc EXCEPT ![c] = "add_sale"]
  /\ UNCHANGED <<db, sales, sid, ret>>

\* add_sale runs from its first line to its return
add_sale(c) ==
  /\ pc[c] = "add_sale"
  /\ \E fault \in AddFaults :
       LET a == args[c]
           r == add_sale_body(db, a.sdate, a.mid, a.bid, a.sqty, a.sdiscount, fault)
       IN  /\ r.kind = "Created" => db.seq < MaxSid
           /\ db' = r.db
           /\ ret' = [ret EXCEPT ![c] = Ret("add_sale", r.kind, r.val, r.err)]
  /\ pc' = [pc EXCEPT ![c] = "done"]
  /\ UNCHANGED <<args, sales, sid>>

\* SELECT s.sid, m.mname, s.sdate FROM sale s JOIN member m ON s.mid = m.mid
\* ORDER BY s.sid
RECURSIVE OrderBySid(_)
OrderBySid(rows) ==
  IF rows = {} THEN <<>>
  ELSE LET first == CHOOSE r \in rows : \A q \in rows : r.sid <= q.sid
       IN  <<first>> \o OrderBySid(rows \ {first})

\* the list in descending order of sale id
ListSales_Desc(d) ==
  LET joined == {s \in d.sale : s.mid \in DOMAIN d.member}
      sorted == OrderBySid(joined)
  IN  [i \in 1..Len(sorted) |->
         [sid |-> sorted[Len(sorted) + 1 - i].sid,
          mname |-> d.member[sorted[Len(sorted) + 1 - i].mid].mname,
          sdate |-> sorted[Len(sorted) + 1 - i].sdate]]

ListSales(d) ==
  LET joined == {s \in d.sale : s.mid \in DOMAIN d.member}
      sorted == OrderBySid(joined)
  IN  [i \in 1..Len(sorted) |->
         [sid |-> sorted[i].sid, mname |-> d.member[sorted[i].mid].mname,
          sdate |-> sorted[i].sdate]]

\* SELECT s.sqty, b.bprice FROM sale s JOIN book b ON s.bid = b.bid
\* WHERE s.sid = ?   (the rows; fetchone() takes the only one, if any)
SelectSaleBook(d, id) ==
  {[sqty |-> s.sqty, bprice |-> d.book[s.bid].bprice] :
     s \in {t \in d.sale : t.sid = id /\ t.bid \in DOMAIN d.book}}

\* the UPDATE writing the discount and leaving the stored total
UpdateSale_StaleTotal(d, sdiscount, stotal, id) ==
  [d EXCEPT !.sale = {IF s.sid = id THEN [s EXCEPT !.sdiscount = sdiscount]
                      ELSE s : s \in @}]

\* the UPDATE without its WHERE clause
UpdateSale_NoWhere(d, sdiscount, stotal, id) ==
  [d EXCEPT !.sale = {[s EXCEPT !.sdiscount = sdiscount, !.stotal = stotal] :
                        s \in @}]

\* UPDATE sale SET sdiscount = ?, stotal = ? WHERE sid = ?
UpdateSale(d, sdiscount, stotal, id) ==
  [d EXCEPT !.sale = {IF s.sid = id
                      THEN [s EXCEPT !.sdiscount = sdiscount, !.stotal = stotal]
                      ELSE s : s \in @}]

\* the DELETE followed by giving the quantity back to the book
DeleteSale_RestoresStock(d, id) ==
  [d EXCEPT !.sale = {s \in @ : s.sid # id},
            !.book = [b \in DOMAIN @ |->
                        IF \E s \in d.sale : s.sid = id /\ s.bid = b
                        THEN [@[b] EXCEPT !.bstock =
                                @ + (CHOOSE s \in d.sale : s.sid = id).sqty]
                        ELSE @[b]]]

\* DELETE FROM sale WHERE sid = ?
DeleteSale(d, id) == [d EXCEPT !.sale = {s \in @ : s.sid # id}]

\* update_sale adjusting the stored total by the change of discount, which
\* keeps the price the total was first computed with
update_sale_body_FrozenPrice(d, id, sdiscount, fault) ==
  IF fault = "select" THEN Result(Rollback(d, d), "PersistenceError", 0, fault)
  ELSE
    LET found == {s \in d.sale : s.sid = id /\ s.bid \in DOMAIN d.book}
    IN  IF found = {} THEN Result(Commit(d, d), "NoOp", 0, "")
        ELSE
          LET sale == CHOOSE r \in found : TRUE
              stotal == sale.stotal + sale.sdiscount - sdiscount
              w1 == UpdateSale(d, sdiscount, stotal, id)
          IN  CASE fault = "update" -> Result(Rollback(d, d), "PersistenceError", 0, fault)
                [] fault = "commit" -> Result(Rollback(d, w1), "PersistenceError", 0, fault)
                [] OTHER -> Result(Commit(d, w1), "Updated", stotal, "")

\* update_sale without its "if sale:" guard: subscripting the None that
\* fetchone() returned raises TypeError, which no except clause catches
update_sale_body_MissingGuard(d, id, sdiscount, fault) ==
  IF fault = "select" THEN Result(Rollback(d, d), "PersistenceError", 0, fault)
  ELSE
    LET found == SelectSaleBook(d, id)
    IN  IF found = {} THEN Result(Rollback(d, d), "TypeError", 0, "")
        ELSE
          LET sale == CHOOSE r \in found : TRUE
              stotal == Total(sale.bprice, sale.sqty, sdiscount)
              w1 == UpdateSale(d, sdiscount, stotal, id)
          IN  CASE fault = "update" -> Result(Rollback(d, d), "PersistenceError", 0, fault)
                [] fault = "commit" -> Result(Rollback(d, w1), "PersistenceError", 0, fault)
                [] OTHER -> Result(Commit(d, w1), "Updated", stotal, "")

\* the try block of update_sale, entered with the resolved sid and the
\* discount the prompt accepted
update_sale_body(d, id, sdiscount, fault) ==
  IF fault = "select" THEN Result(Rollback(d, d), "PersistenceError", 0, fault)
  ELSE
    LET found == SelectSaleBook(d, id)
    IN  IF found = {} THEN Result(Commit(d, d), "NoOp", 0, "")
        ELSE
          LET sale == CHOOSE r \in found : TRUE
              stotal == Total(sale.bprice, sale.sqty, sdiscount)
              w1 == UpdateSale(d, sdiscount, stotal, id)
          IN  CASE fault = "update" -> Result(Rollback(d, d), "PersistenceError", 0, fault)
                [] fault = "commit" -> Result(Rollback(d, w1), "PersistenceError", 0, fault)
                [] OTHER -> Result(Commit(d, w1), "Updated", stotal, "")

\* delete_sale reporting an error when the DELETE matched no row
delete_sale_body_RowcountCheck(d, id, fault) ==
  LET w1 == DeleteSale(d, id)
  IN  CASE fault = "delete" -> Result(Rollback(d, d), "PersistenceError", 0, fault)
        [] w1 = d -> Result(Rollback(d, d), "NotFound", id, "")
        [] fault = "commit" -> Result(Rollback(d, w1), "PersistenceError", 0, fault)
        [] OTHER -> Result(Commit(d, w1), "Deleted", id, "")

\* the try block of delete_sale
delete_sale_body(d, id, fault) ==
  LET w1 == DeleteSale(d, id)
  IN  CASE fault = "delete" -> Result(Rollback(d, d), "PersistenceError", 0, fault)
        [] fault = "commit" -> Result(Rollback(d, w1), "PersistenceError", 0, fault)
        [] OTHER -> Result(Commit(d, w1), "Deleted", id, "")

\* menu choice 3, up to the first prompt: the list is fetched and printed
update_sale_list(c) ==
  /\ pc[c] = "menu"
  /\ LET l == ListSales(db)
     IN  IF l = <<>>
         THEN /\ ret' = [ret EXCEPT ![c] = Ret("update_sale", "NoSales", 0, "")]
              /\ pc' = [pc EXCEPT ![c] = "done"]
              /\ UNCHANGED sales
         ELSE /\ sales' = [sales EXCEPT ![c] = l]
              /\ pc' = [pc EXCEPT ![c] = "update_choice"]
              /\ UNCHANGED ret
  /\ UNCHANGED <<db, args, sid>>

\* the choice typed at the first prompt of update_sale
update_sale_choice(c) ==
  /\ pc[c] = "update_choice"
  /\ \E choice \in ChoiceInputs(Len(sales[c])) :
       IF choice.kind = "empty"
       THEN /\ ret' = [ret EXCEPT ![c] = Ret("update_sale", "Cancelled", 0, "")]
            /\ pc' = [pc EXCEPT ![c] = "done"]
            /\ UNCHANGED sid
       ELSE IF choice.kind = "text" \/ choice.n < 1 \/ choice.n > Len(sales[c])
       THEN /\ ret' = [ret EXCEPT ![c] = Ret("update_sale", "InvalidChoice", 0, "")]
            /\ pc' = [pc EXCEPT ![c] = "done"]
            /\ UNCHANGED sid
       ELSE /\ sid' = [sid EXCEPT ![c] = sales[c][choice.n].sid]
            /\ pc' = [pc EXCEPT ![c] = "update_discount"]
            /\ UNCHANGED ret
  /\ UNCHANGED <<db, args, sales>>

\* one round of the discount prompt of update_sale: a rejected value is
\* asked for again, an accepted one is written to the sale
update_sale(c) ==
  /\ pc[c] = "update_discount"
  /\ \E input \in DiscountInputs, fault \in UpdateFaults :
       IF input.kind = "text"
       THEN /\ ret' = [ret EXCEPT ![c] = Ret("update_sale", "NotInteger", 0, "")]
            /\ UNCHANGED <<db, pc, args>>
       ELSE IF InvalidDiscount(input.n)
       THEN /\ ret' = [ret EXCEPT ![c] = Ret("update_sale", "InvalidDiscount", 0, "")]
            /\ args' = [args EXCEPT ![c] = [NoArgs EXCEPT !.sdiscount = input.n]]
            /\ UNCHANGED <<db, pc>>
       ELSE LET r == update_sale_body(db, sid[c], input.n, fault)
            IN  /\ db' = r.db
                /\ ret' = [ret EXCEPT ![c] = Ret("update_sale", r.kind, r.val, r.err)]
                /\ args' = [args EXCEPT ![c] = [NoArgs EXCEPT !.sdiscount = input.n]]
                /\ pc' = [pc EXCEPT ![c] = "done"]
  /\ UNCHANGED <<sales, sid>>

\* menu choice 4, up to the prompt: the list is fetched and printed
delete_sale_list(c) ==
  /\ pc[c] = "menu"
  /\ LET l == ListSales(db)
     IN  IF l = <<>>
         THEN /\ ret' = [ret EXCEPT ![c] = Ret("delete_sale", "NoSales", 0, "")]
              /\ pc' = [pc EXCEPT ![c] = "done"]
              /\ UNCHANGED sales
         ELSE /\ sales' = [sales EXCEPT ![c] = l]
              /\ pc' = [pc EXCEPT ![c] = "delete_choice"]
              /\ UNCHANGED ret
  /\ UNCHANGED <<db, args, sid>>

\* the choice typed at the prompt of delete_sale, and the delete it leads to
delete_sale(c) ==
  /\ pc[c] = "delete_choice"
  /\ \E choice \in ChoiceInputs(Len(sales[c])), fault \in DeleteFaults :
       IF choice.kind = "empty"
       THEN /\ ret' = [ret EXCEPT ![c] = Ret("delete_sale", "Cancelled", 0, "")]
            /\ UNCHANGED <<db, sid>>
       ELSE IF choice.kind = "text" \/ choice.n < 1 \/ choice.n > Len(sales[c])
       THEN /\ ret' = [ret EXCEPT ![c] = Ret("delete_sale", "InvalidChoice", 0, "")]
            /\ UNCHANGED <<db, sid>>
       ELSE LET id == sales[c][choice.n].sid
                r == delete_sale_body(db, id, fault)
            IN  /\ db' = r.db
                /\ sid' = [sid EXCEPT ![c] = id]
                /\ ret' = [ret EXCEPT ![c] = Ret("delete_sale", r.kind, r.val, r.err)]
  /\ pc' = [pc EXCEPT ![c] = "done"]
  /\ UNCHANGED <<args, sales>>

\* SELECT s.sid, s.sdate, m.mname, b.btitle, b.bprice, s.sqty, s.sdiscount,
\* s.stotal FROM sale s JOIN member m ... JOIN book b ... ORDER BY s.sid
SaleReport(d) ==
  LET joined == {s \in d.sale : s.mid \in DOMAIN d.member /\ s.bid \in DOMAIN d.book}
      sorted == OrderBySid(joined)
  IN  [i \in 1..Len(sorted) |->
         [sid |-> sorted[i].sid, sdate |-> sorted[i].sdate,
          mname |-> d.member[sorted[i].mid].mname,
          btitle |-> d.book[sorted[i].bid].btitle,
          bprice |-> d.book[sorted[i].bid].bprice,
          sqty |-> sorted[i].sqty, sdiscount |-> sorted[i].sdiscount,
          stotal |-> sorted[i].stotal]]

\* menu choice 2: the report is fetched and printed
print_sale_report(c) ==
  /\ pc[c] = "menu"
  /\ ret' = [ret EXCEPT ![c] = Ret("print_sale_report", "Printed",
                                   Len(SaleReport(db)), "")]
  /\ pc' = [pc EXCEPT ![c] = "done"]
  /\ UNCHANGED <<db, args, sales, sid>>

\* the outcome is printed and the menu is shown again
main(c) ==
  /\ pc[c] = "done"
  /\ pc' = [pc EXCEPT ![c] = "menu"]
  /\ args' = [args EXCEPT ![c] = NoArgs]
  /\ sales' = [sales EXCEPT ![c] = <<>>]
  /\ sid' = [sid EXCEPT ![c] = 0]
  /\ ret' = [ret EXCEPT ![c] = NoRet]
  /\ UNCHANGED db

Next ==
  \/ call_add_sale(Main)
  \/ add_sale(Main)
  \/ print_sale_report(Main)
  \/ update_sale_list(Main)
  \/ update_sale_choice(Main)
  \/ update_sale(Main)
  \/ delete_sale_list(Main)
  \/ delete_sale(Main)
  \/ main(Main)

Spec == Init /\ [][Next]_vars

(***************************************************************************)
(* The same program with the price of a book edited from outside between   *)
(* two operations (the program itself never writes bprice).                *)
(***************************************************************************)
Prices == {600, 700}

\* UPDATE book SET bprice = ? WHERE bid = ?, issued by another tool
book_price_change ==
  /\ \E b \in {"B001"}, p \in Prices :
       /\ b \in DOMAIN db.book
       /\ db.book[b].bprice # p
       /\ db' = [db EXCEPT !.book[b].bprice = p]
  /\ UNCHANGED <<pc, args, sales, sid, ret>>

\* the seeded sales under update, delete and outside price edits
NextPrice ==
  \/ update_sale_list(Main)
  \/ update_sale_choice(Main)
  \/ update_sale(Main)
  \/ delete_sale_list(Main)
  \/ delete_sale(Main)
  \/ main(Main)
  \/ book_price_change

SpecPrice == Init /\ [][NextPrice]_vars

(***************************************************************************)
(* The program is left and started again: main() calls initialize_db on    *)
(* the database file the earlier run left behind.                          *)
(***************************************************************************)
\* largest sale id the model lets a restart reach
MaxRestartSid == 8

\* Enter or 5 at the menu, conn.close(), and the next start of main()
restart(c) ==
  /\ pc[c] = "menu"
  /\ db.seq + Len(SeedSales) <= MaxRestartSid
  /\ db' = initialize_db(db)
  /\ ret' = [ret EXCEPT ![c] = Ret("initialize_db", "Started", 0, "")]
  /\ UNCHANGED <<pc, args, sales, sid>>

NextRestart ==
  \/ restart(Main)
  \/ delete_sale_list(Main)
  \/ delete_sale(Main)
  \/ main(Main)

SpecRestart == Init /\ [][NextRestart]_vars

(***************************************************************************)
(* add_sale called with a date string taken from a larger set, the other   *)
(* arguments being valid.                                                  *)
(***************************************************************************)
Date_2024_01_15 == <<"2", "0", "2", "4", "-", "0", "1", "-", "1", "5">>
Date_2024_1_15 == <<"2", "0", "2", "4", "-", "1", "-", "1", "5">>
Date_2024s01s15 == <<"2", "0", "2", "4", "/", "0", "1", "/", "1", "5">>
Date_15_01_2024 == <<"1", "5", "-", "0", "1", "-", "2", "0", "2", "4">>
Date_2024_13_01 == <<"2", "0", "2", "4", "-", "1", "3", "-", "0", "1">>
Date_0000_01_01 == <<"0", "0", "0", "0", "-", "0", "1", "-", "0", "1">>
Date_2024_01_s5 == <<"2", "0", "2", "4", "-", "0", "1", "-", " ", "5">>

DateInputs ==
  {<<"2", "0", "2", y, s1, m1, m2, "-", d1, d2>> :
     y \in {"3", "4"}, s1 \in {"-", "/"}, m1 \in {"0", "1"},
     m2 \in {"0", "1", "2", "3"}, d1 \in {"0", "2", "3", " "},
     d2 \in {"0", "5", "9"}}
  \cup {Date_2024_01_15, Date_2024_1_15, Date_2024s01s15, Date_2024_02_30,
        Date_15_01_2024, Date_2024_13_01, Date_0000_01_01}

InitDate ==
  /\ db = initialize_db(DB_NAME)
  /\ pc = [c \in Callers |-> IF c = Main THEN "add_sale" ELSE "menu"]
  /\ \E sdate \in DateInputs :
       args = [c \in Callers |->
                 IF c = Main
                 THEN [sdate |-> sdate, mid |-> "M001", bid |-> "B001",
                       sqty |-> 2, sdiscount |-> 100]
                 ELSE NoArgs]
  /\ sales = [c \in Callers |-> <<>>]
  /\ sid = [c \in Callers |-> 0]
  /\ ret = [c \in Callers |-> NoRet]

NextDate ==
  \/ add_sale(Main)
  \/ main(Main)

SpecDate == InitDate /\ [][NextDate]_vars

(***************************************************************************)
(* Two program instances on the same bookstore.db: Main updates and        *)
(* deletes while the other instance deletes.  A prompt is where an         *)
(* instance waits, so the other one may run in between.                    *)
(***************************************************************************)
Other == 2

NextRace ==
  \/ update_sale_list(Main)
  \/ update_sale_choice(Main)
  \/ update_sale(Main)
  \/ \E c \in Callers :
       \/ delete_sale_list(c)
       \/ delete_sale(c)
       \/ main(c)

SpecRace == Init /\ [][NextRace]_vars

(***************************************************************************)
(* Two program instances creating sales of the same book.  add_sale reads  *)
(* the book row with a SELECT outside any transaction and writes later, so *)
(* the other instance can commit between the two; the INSERT, the UPDATE   *)
(* and the commit are one sqlite transaction.                              *)
(***************************************************************************)
\* largest sale id the model lets the two instances reach
MaxConcSid == 6

ConcQtys == {2, 50, 51}

\* menu choice 1 of either instance, for book B001
call_add_sale_same_book(c) ==
  /\ pc[c] = "menu"
  /\ \E sqty \in ConcQtys :
       args' = [args EXCEPT ![c] = [sdate |-> Date_2024_02_01, mid |-> "M001",
                                    bid |-> "B001", sqty |-> sqty,
                                    sdiscount |-> 100]]
  /\ pc' = [pc EXCEPT ![c] = "add_sale"]
  /\ UNCHANGED <<db, sales, sid, ret>>

\* add_sale up to the computation of the total: the checks, with the member
\* and the book row read from the database as it is now; bprice and bstock
\* are kept with the arguments
add_sale_read(c) ==
  /\ pc[c] = "add_sale"
  /\ LET a == args[c]
         fail(kind, val) ==
           /\ ret' = [ret EXCEPT ![c] = Ret("add_sale", kind, val, "")]
           /\ pc' = [pc EXCEPT ![c] = "done"]
           /\ UNCHANGED args
     IN  IF ~validate_date(a.sdate) THEN fail("InvalidDate", 0)
         ELSE IF ~SelectMember(db, a.mid) THEN fail("InvalidReference", 0)
         ELSE IF ~SelectBook(db, a.bid) THEN fail("InvalidReference", 0)
         ELSE IF InvalidQuantity(a.sqty) THEN fail("InvalidQuantity", 0)
         ELSE IF InsufficientStock(a.sqty, db.book[a.bid].bstock)
              THEN fail("InsufficientStock", db.book[a.bid].bstock)
         ELSE IF InvalidDiscount(a.sdiscount) THEN fail("InvalidDiscount", 0)
         ELSE /\ args' = [args EXCEPT ![c] =
                            a @@ [bprice |-> db.book[a.bid].bprice,
                                  bstock |-> db.book[a.bid].bstock]]
              /\ pc' = [pc EXCEPT ![c] = "add_sale_write"]
              /\ UNCHANGED ret
  /\ UNCHANGED <<db, sales, sid>>

\* the try block of add_sale, run on the database as it is now
add_sale_write(c) ==
  /\ pc[c] = "add_sale_write"
  /\ \E fault \in AddFaults :
       LET a == args[c]
           stotal == Total(a.bprice, a.sqty, a.sdiscount)
           w1 == InsertSale(db, a.sdate, a.mid, a.bid, a.sqty, a.sdiscount, stotal)
           w2 == UpdateBookStock(w1, a.sqty, a.bid)
           r == CASE fault = "insert" -> Result(Rollback(db, db), "PersistenceError", 0, fault)
                  [] fault = "update" -> Result(Rollback(db, w1), "PersistenceError", 0, fault)
                  [] fault = "commit" -> Result(Rollback(db, w2), "PersistenceError", 0, fault)
                  [] OTHER -> Result(Commit(db, w2), "Created", stotal, "")
       IN  /\ r.kind = "Created" => db.seq < MaxConcSid
           /\ db' = r.db
           /\ ret' = [ret EXCEPT ![c] = Ret("add_sale", r.kind, r.val, r.err)]
  /\ pc' = [pc EXCEPT ![c] = "done"]
  /\ UNCHANGED <<args, sales, sid>>

NextConc ==
  \E c \in Callers :
    \/ call_add_sale_same_book(c)
    \/ add_sale_read(c)
    \/ add_sale_write(c)
    \/ main(c)

SpecConc == Init /\ [][NextConc]_vars

(***************************************************************************)
(* Steps of the operations, as seen from a pair of states.                 *)
(***************************************************************************)
\* caller c ran add_sale from call to return
AddSaleStep(c) == pc[c] = "add_sale" /\ pc'[c] = "done"

\* caller c answered the discount prompt of update_sale
UpdateSaleStep(c) ==
  /\ pc[c] = "update_discount"
  /\ ret'[c].op = "update_sale"
  /\ <<pc[c], args[c], ret[c]>> # <<pc'[c], args'[c], ret'[c]>>

Stock(d, b) == d.book[b].bstock
Price(d, b) == d.book[b].bprice
Sids(d) == {s.sid : s \in d.sale}

(***************************************************************************)
(* C1: in every state reachable from the seeded database by create,        *)
(* update and delete of a single caller, the stock of every book is >= 0.  *)
(***************************************************************************)
C1_StockNeverNegative == \A b \in DOMAIN db.book : Stock(db, b) >= 0

\* a create has sold the whole stock of a book
C1_Witness ==
  /\ ret[Main].op = "add_sale" /\ ret[Main].kind = "Created"
  /\ Stock(db, args[Main].bid) = 0

(***************************************************************************)
(* C2: a create that succeeds adds exactly one sale row, with a fresh id,  *)
(* the arguments of the call and total = price * quantity - discount (not  *)
(* clamped at zero), takes exactly the quantity off that book's stock,     *)
(* leaves every other book alone, and returns that total.                  *)
(***************************************************************************)
C2_CreateEffect ==
  [][\A c \in Callers :
       (AddSaleStep(c) /\ ret'[c].kind = "Created") =>
         LET a == args[c]
             total == Price(db, a.bid) * a.sqty - a.sdiscount
             added == db'.sale \ db.sale
         IN  /\ db.sale \subseteq db'.sale
             /\ Cardinality(added) = 1
             /\ \A row \in added :
                  /\ row.sid \notin Sids(db)
                  /\ row.sdate = a.sdate /\ row.mid = a.mid /\ row.bid = a.bid
                  /\ row.sqty = a.sqty /\ row.sdiscount = a.sdiscount
                  /\ row.stotal = total
             /\ DOMAIN db'.book = DOMAIN db.book
             /\ Stock(db', a.bid) = Stock(db, a.bid) - a.sqty
             /\ Price(db', a.bid) = Price(db, a.bid)
             /\ \A b \in DOMAIN db.book \ {a.bid} : db'.book[b] = db.book[b]
             /\ db'.member = db.member
             /\ ret'[c].val = total
    ]_vars

\* a create with a discount above price * quantity stored a negative total
C2_Witness ==
  /\ pc[Main] = "done" /\ ret[Main].op = "add_sale" /\ ret[Main].kind = "Created"
  /\ args[Main].sdiscount > Price(db, args[Main].bid) * args[Main].sqty
  /\ ret[Main].val < 0
  /\ \E row \in db.sale : row.stotal = ret[Main].val /\ row.stotal < 0

(***************************************************************************)
(* C3: create reports the first failing check in the order date, member    *)
(* and book exist, quantity > 0, quantity <= stock, discount >= 0; an      *)
(* unknown member and an unknown book give the same InvalidReference.      *)
(***************************************************************************)
CheckOrder ==
  <<"InvalidDate", "InvalidReference", "InvalidQuantity", "InsufficientStock",
    "InvalidDiscount">>

\* the checks an input fails, each taken on its own
FailedChecks(d, a) ==
  {k \in {CheckOrder[i] : i \in 1..Len(CheckOrder)} :
     \/ k = "InvalidDate" /\ ~validate_date(a.sdate)
     \/ k = "InvalidReference"
          /\ (a.mid \notin DOMAIN d.member \/ a.bid \notin DOMAIN d.book)
     \/ k = "InvalidQuantity" /\ a.sqty <= 0
     \/ k = "InsufficientStock"
          /\ a.bid \in DOMAIN d.book /\ a.sqty > Stock(d, a.bid)
     \/ k = "InvalidDiscount" /\ a.sdiscount < 0}

FirstFailed(d, a) ==
  CheckOrder[CHOOSE i \in 1..Len(CheckOrder) :
               /\ CheckOrder[i] \in FailedChecks(d, a)
               /\ \A j \in 1..(i - 1) : CheckOrder[j] \notin FailedChecks(d, a)]

C3_FirstFailureWins ==
  [][\A c \in Callers :
       AddSaleStep(c) =>
         IF FailedChecks(db, args[c]) = {}
         THEN ret'[c].kind \in {"Created", "PersistenceError"}
         ELSE ret'[c].kind = FirstFailed(db, args[c])
    ]_vars

\* an input failing the date, reference, quantity and discount checks at
\* once was answered with InvalidDate
C3_Witness ==
  /\ pc[Main] = "done" /\ ret[Main].op = "add_sale"
  /\ ret[Main].kind = "InvalidDate"
  /\ args[Main].mid \notin DOMAIN db.member
  /\ args[Main].bid \notin DOMAIN db.book
  /\ args[Main].sqty <= 0
  /\ args[Main].sdiscount < 0

(***************************************************************************)
(* C4: for an otherwise valid create, a quantity above the current stock   *)
(* fails with InsufficientStock, the message carries the current stock and *)
(* nothing changes; a quantity equal to the stock succeeds and leaves the  *)
(* stock at 0.                                                             *)
(***************************************************************************)
OtherwiseValid(d, a) ==
  /\ validate_date(a.sdate)
  /\ a.mid \in DOMAIN d.member
  /\ a.bid \in DOMAIN d.book
  /\ a.sqty > 0
  /\ a.sdiscount >= 0

C4_StockBoundary ==
  [][\A c \in Callers :
       (AddSaleStep(c) /\ OtherwiseValid(db, args[c])) =>
         LET a == args[c]
         IN  /\ a.sqty > Stock(db, a.bid) =>
                  /\ ret'[c].kind = "InsufficientStock"
                  /\ ret'[c].val = Stock(db, a.bid)
                  /\ db' = db
             /\ (a.sqty = Stock(db, a.bid) /\ ret'[c].kind # "PersistenceError") =>
                  /\ ret'[c].kind = "Created"
                  /\ Stock(db', a.bid) = 0
    ]_vars

\* the whole stock was sold by one create, and the next create for that book
\* was refused with the stock that is left
C4_Witness ==
  /\ pc[Main] = "done" /\ ret[Main].op = "add_sale"
  /\ ret[Main].kind = "InsufficientStock"
  /\ OtherwiseValid(db, args[Main])
  /\ args[Main].sqty > Stock(db, args[Main].bid)
  /\ ret[Main].val = Stock(db, args[Main].bid)
  /\ Stock(db, args[Main].bid) = 0
  /\ \E s \in db.sale : s.bid = args[Main].bid /\ s.sqty = 50

(***************************************************************************)
(* C5: a create rejected for its date, its member or book, its quantity or *)
(* its discount leaves the whole database unchanged.                       *)
(***************************************************************************)
C5_RejectedCreateChangesNothing ==
  [][\A c \in Callers :
       (AddSaleStep(c)
          /\ ret'[c].kind \in {"InvalidDate", "InvalidReference",
                               "InvalidQuantity", "InvalidDiscount"})
       => db' = db
    ]_vars

\* a create that passed every check but the last was rejected for its discount
C5_Witness ==
  /\ pc[Main] = "done" /\ ret[Main].op = "add_sale"
  /\ ret[Main].kind = "InvalidDiscount"
  /\ args[Main].sdiscount < 0
  /\ args[Main].sqty > 0 /\ args[Main].sqty <= Stock(db, args[Main].bid)

(***************************************************************************)
(* C6: create is all-or-nothing: a storage failure after validation is     *)
(* reported as PersistenceError and leaves the committed database as it    *)
(* was; a create never commits the sale row without the stock decrement or *)
(* the decrement without the row.                                          *)
(***************************************************************************)
C6_CreateAllOrNothing ==
  [][\A c \in Callers :
       AddSaleStep(c) =>
         /\ ret'[c].kind = "PersistenceError" => db' = db
         /\ ret'[c].err # "" => ret'[c].kind = "PersistenceError"
         /\ (db'.sale # db.sale) <=> (db'.book # db.book)
         /\ db' # db => ret'[c].kind = "Created"
    ]_vars

\* the sale row was inserted, the stock update failed, and the row is gone
C6_Witness ==
  /\ pc[Main] = "done" /\ ret[Main].op = "add_sale"
  /\ ret[Main].kind = "PersistenceError" /\ ret[Main].err = "update"
  /\ \A s \in db.sale : s.sdate # args[Main].sdate

(***************************************************************************)
(* C7: in every state reachable from the seeded database by create,        *)
(* update and delete, every stored sale has                                *)
(* total = (current price of its book) * quantity - discount.              *)
(***************************************************************************)
C7_TotalFormula ==
  \A s \in db.sale :
    /\ s.bid \in DOMAIN db.book
    /\ s.stotal = Price(db, s.bid) * s.sqty - s.sdiscount

\* a seeded sale has had its discount updated and a created sale is stored
C7_Witness ==
  /\ \E s \in db.sale : s.sid <= 4 /\ s.sdiscount = 50 /\ s.sqty > 1
  /\ \E s \in db.sale : s.sid > 4

(***************************************************************************)
(* C8: an update with a non-negative discount stores that discount and     *)
(* sets total = (price of the book at the time of the update) * quantity   *)
(* - new discount, also when the price has changed since the sale was      *)
(* created.                                                                *)
(***************************************************************************)
C8_UpdateUsesCurrentPrice ==
  [][\A c \in Callers :
       (UpdateSaleStep(c) /\ ret'[c].kind = "Updated") =>
         /\ args'[c].sdiscount >= 0
         /\ \E old \in db.sale :
              /\ old.sid = sid[c]
              /\ \E new \in db'.sale :
                   /\ new.sid = sid[c]
                   /\ new.sdiscount = args'[c].sdiscount
                   /\ new.stotal = Price(db, old.bid) * old.sqty - args'[c].sdiscount
                   /\ ret'[c].val = new.stotal
    ]_vars

\* sale 1 (2 copies of B001, created at 600 with discount 100, total 1100)
\* was updated to discount 50 after the price went to 700: total 1350
C8_Witness ==
  /\ pc[Main] = "done" /\ ret[Main].op = "update_sale" /\ ret[Main].kind = "Updated"
  /\ sid[Main] = 1
  /\ Price(db, "B001") = 700
  /\ \E s \in db.sale :
       s.sid = 1 /\ s.bid = "B001" /\ s.sqty = 2 /\ s.sdiscount = 50 /\ s.stotal = 1350

(***************************************************************************)
(* C9: an update changes only the discount and the total of the selected   *)
(* sale: books, members, the other sales and the id, date, member, book    *)
(* and quantity of the selected sale stay as they were.                    *)
(***************************************************************************)
C9_UpdateFrame ==
  [][\A c \in Callers :
       UpdateSaleStep(c) =>
         /\ db'.book = db.book
         /\ db'.member = db.member
         /\ db'.seq = db.seq
         /\ Sids(db') = Sids(db)
         /\ Cardinality(db'.sale) = Cardinality(db.sale)
         /\ \A s \in db.sale : s.sid # sid[c] => s \in db'.sale
         /\ \A s \in db.sale : s.sid = sid[c] =>
              \E t \in db'.sale :
                /\ t.sid = s.sid /\ t.sdate = s.sdate /\ t.mid = s.mid
                /\ t.bid = s.bid /\ t.sqty = s.sqty
    ]_vars

\* one of several stored sales was updated to a discount none of them had
C9_Witness ==
  /\ pc[Main] = "done" /\ ret[Main].op = "update_sale" /\ ret[Main].kind = "Updated"
  /\ Cardinality(db.sale) >= 2
  /\ \E s \in db.sale : s.sid = sid[Main] /\ s.sdiscount = args[Main].sdiscount
  /\ \E s \in db.sale : s.sid # sid[Main] /\ s.sdiscount # args[Main].sdiscount

(***************************************************************************)
(* C10: update_sale itself rejects a negative discount with                *)
(* InvalidDiscount and leaves the sale as it was; no update persists a     *)
(* negative discount.                                                      *)
(***************************************************************************)
C10_UpdateRejectsNegative ==
  [][\A c \in Callers :
       UpdateSaleStep(c) =>
         /\ (ret'[c].kind # "NotInteger" /\ args'[c].sdiscount < 0) =>
              /\ ret'[c].kind = "InvalidDiscount"
              /\ db' = db
         /\ \A s \in db'.sale \ db.sale : s.sdiscount >= 0
    ]_vars

\* a negative discount was typed at the prompt of update_sale and refused
C10_Witness ==
  /\ pc[Main] = "update_discount"
  /\ ret[Main].op = "update_sale" /\ ret[Main].kind = "InvalidDiscount"
  /\ args[Main].sdiscount < 0
  /\ \E s \in db.sale : s.sid = sid[Main] /\ s.sdiscount >= 0

\* caller c answered the prompt of delete_sale
DeleteSaleStep(c) == pc[c] = "delete_choice" /\ pc'[c] = "done"

(***************************************************************************)
(* C11: when the sale id chosen from the list no longer resolves to a      *)
(* stored sale at the time update_sale executes (another instance deleted  *)
(* it after it was listed), the update changes no sale row and no book     *)
(* row, and reports no error.                                              *)
(***************************************************************************)
C11_UpdateOfMissingSaleIsNoOp ==
  [][\A c \in Callers :
       (UpdateSaleStep(c) /\ pc'[c] = "done" /\ sid[c] \notin Sids(db)) =>
         /\ db' = db
         /\ ret'[c].err = "" => ret'[c].kind = "NoOp"
    ]_vars

\* Main chose a listed sale, the other instance deleted it, and the update of
\* Main ended without writing and without a message
C11_Witness ==
  /\ pc[Main] = "done" /\ ret[Main].op = "update_sale" /\ ret[Main].kind = "NoOp"
  /\ sid[Main] >= 1 /\ sid[Main] \notin Sids(db)
  /\ \E i \in 1..Len(sales[Main]) : sales[Main][i].sid = sid[Main]

(***************************************************************************)
(* C13: delete is idempotent: deleting a sale id that is not stored (any   *)
(* more) succeeds without an error and leaves the database unchanged, so   *)
(* deleting the same id twice gives the state of deleting it once.         *)
(***************************************************************************)
C13_DeleteIdempotent ==
  [][\A c \in Callers :
       (DeleteSaleStep(c) /\ ret'[c].kind \notin {"Cancelled", "InvalidChoice"}) =>
         /\ sid'[c] \notin Sids(db) =>
              /\ db' = db
              /\ ret'[c].err = "" => ret'[c].kind = "Deleted"
         /\ ret'[c].kind = "Deleted" =>
              /\ sid'[c] \notin Sids(db')
              /\ DeleteSale(db', sid'[c]) = db'
    ]_vars

\* both instances listed the same sale and both deleted it: the second
\* delete found no row and still reported success
C13_Witness ==
  /\ pc[Main] = "done" /\ ret[Main].op = "delete_sale" /\ ret[Main].kind = "Deleted"
  /\ pc[Other] = "done" /\ ret[Other].op = "delete_sale" /\ ret[Other].kind = "Deleted"
  /\ sid[Main] = sid[Other] /\ sid[Main] >= 1
  /\ sid[Main] \notin Sids(db)

ListedSids(d) == {ListSales(d)[i].sid : i \in 1..Len(ListSales(d))}
ReportedSids(d) == {SaleReport(d)[i].sid : i \in 1..Len(SaleReport(d))}

(***************************************************************************)
(* C12: deleting a stored sale removes exactly that row, so that the       *)
(* listing and the report omit it from then on, and changes nothing else:  *)
(* the stock of its book is not given back and the other sales and the     *)
(* books stay as they were.                                                *)
(***************************************************************************)
C12_DeleteFrame ==
  [][/\ \A c \in Callers :
          (DeleteSaleStep(c) /\ ret'[c].kind = "Deleted" /\ sid'[c] \in Sids(db)) =>
            /\ db'.sale = {s \in db.sale : s.sid # sid'[c]}
            /\ Cardinality(db'.sale) = Cardinality(db.sale) - 1
            /\ db'.book = db.book
            /\ db'.member = db.member
            /\ ListedSids(db') = Sids(db) \ {sid'[c]}
            /\ ReportedSids(db') = Sids(db) \ {sid'[c]}
     \* an id that was handed out and is gone stays out of every later list
     /\ \A id \in 1..db.seq :
          id \notin Sids(db) =>
            id \notin Sids(db') \cup ListedSids(db') \cup ReportedSids(db')
    ]_vars

\* 2 copies of B001 were sold from a stock of 50 as sale 5, and sale 5 was
\* deleted: the stock is still 48
C12_Witness ==
  /\ pc[Main] = "done" /\ ret[Main].op = "delete_sale" /\ ret[Main].kind = "Deleted"
  /\ sid[Main] = 5 /\ 5 \notin Sids(db) /\ db.seq = 5
  /\ Stock(db, "B001") = 48

(***************************************************************************)
(* C14: the list update_sale and delete_sale select from holds each stored *)
(* sale exactly once, in strictly ascending order of sale id, and nothing  *)
(* else; no stored sale is hidden by the join, because every stored sale   *)
(* references a member and a book that exist; an empty list is reported    *)
(* without an error and changes nothing.                                   *)
(***************************************************************************)
AtPrompt(c) == pc[c] \in {"update_choice", "update_discount", "delete_choice"}

C14_ListInv ==
  /\ \A s \in db.sale : s.mid \in DOMAIN db.member /\ s.bid \in DOMAIN db.book
  /\ \A c \in Callers :
       AtPrompt(c) =>
         LET l == sales[c]
         IN  /\ Len(l) = Cardinality(db.sale)
             /\ {l[i].sid : i \in 1..Len(l)} = Sids(db)
             /\ \A i, j \in 1..Len(l) : i < j => l[i].sid < l[j].sid
             /\ \A i \in 1..Len(l) :
                  \E s \in db.sale :
                    /\ s.sid = l[i].sid /\ s.sdate = l[i].sdate
                    /\ db.member[s.mid].mname = l[i].mname

C14_ListForSelection ==
  /\ []C14_ListInv
  /\ [][\A c \in Callers :
          (pc[c] = "menu" /\ ret'[c].op \in {"update_sale", "delete_sale"}) =>
            /\ db' = db
            /\ (db.sale = {}) <=> (pc'[c] = "done")
            /\ pc'[c] = "done" => ret'[c].kind = "NoSales"
            /\ pc'[c] # "done" => sales'[c] # <<>>
       ]_vars

\* the list shown after sale 5 was created and one seeded sale was deleted
C14_Witness ==
  /\ pc[Main] = "update_choice"
  /\ Len(sales[Main]) = 4
  /\ sales[Main][4].sid = 5
  /\ \E id \in 1..4 : id \notin Sids(db)

(***************************************************************************)
(* C15: sale ids are unique and handed out in increasing order over any    *)
(* sequence of creates and deletes: a new sale gets an id above every id   *)
(* handed out before, the ids of deleted sales included, so no id is used  *)
(* twice.  (db.seq is the largest id handed out so far.)                   *)
(***************************************************************************)
C15_SidsNeverReused ==
  /\ [](/\ Cardinality(Sids(db)) = Cardinality(db.sale)
        /\ \A s \in db.sale : s.sid >= 1 /\ s.sid <= db.seq)
  /\ [][/\ db'.seq >= db.seq
        /\ \A s \in db'.sale :
             s.sid \notin Sids(db) =>
               /\ s.sid > db.seq
               /\ \A t \in db.sale : s.sid > t.sid
       ]_vars

\* sale 4, the one with the largest id, was deleted before the next create:
\* the new sale is 5, not 4
C15_Witness ==
  /\ pc[Main] = "done" /\ ret[Main].op = "add_sale" /\ ret[Main].kind = "Created"
  /\ 4 \notin Sids(db) /\ 5 \in Sids(db)

(***************************************************************************)
(* C16: seeding is an idempotent insert-if-absent: initialize_db on a      *)
(* database that was initialized before (the next program start) leaves    *)
(* the member, book and sale tables exactly as they were.                  *)
(***************************************************************************)
C16_SeedingIdempotent ==
  [][\A c \in Callers :
       (pc[c] = "menu" /\ pc'[c] = "menu" /\ ret'[c].op = "initialize_db") =>
         db' = db
    ]_vars

(***************************************************************************)
(* C17: validate_date accepts a string only if it has exactly 10           *)
(* characters, exactly two "-" and is a real calendar date written         *)
(* YYYY-MM-DD; it accepts 2024-01-15 and rejects 2024-1-15, 2024/01/15,    *)
(* 2024-02-30, 15-01-2024 and month 13; add_sale returns InvalidDate       *)
(* exactly when validate_date rejects.                                     *)
(***************************************************************************)
\* s is four digits, "-", a month of two digits, "-", a day of two digits of
\* that month
IsCalendarDate(s) ==
  /\ Len(s) = 10
  /\ count(s, "-") = 2
  /\ s[5] = "-" /\ s[8] = "-"
  /\ \A i \in {1, 2, 3, 4, 6, 7, 9, 10} : s[i] \in Digits
  /\ LET year == 1000 * DigitVal(s[1]) + 100 * DigitVal(s[2])
                   + 10 * DigitVal(s[3]) + DigitVal(s[4])
         mon  == 10 * DigitVal(s[6]) + DigitVal(s[7])
         day  == 10 * DigitVal(s[9]) + DigitVal(s[10])
     IN  /\ mon >= 1 /\ mon <= 12
         /\ day >= 1 /\ day <= DaysInMonth(year, mon)

C17_DateValidator ==
  /\ validate_date(Date_2024_01_15)
  /\ ~validate_date(Date_2024_1_15)
  /\ ~validate_date(Date_2024s01s15)
  /\ ~validate_date(Date_2024_02_30)
  /\ ~validate_date(Date_15_01_2024)
  /\ ~validate_date(Date_2024_13_01)
  /\ \A c \in Callers :
       (pc[c] = "done" /\ ret[c].op = "add_sale") =>
         /\ (ret[c].kind = "InvalidDate") <=> ~validate_date(args[c].sdate)
         /\ ret[c].kind # "InvalidDate" => IsCalendarDate(args[c].sdate)

(***************************************************************************)
(* C18: the stock check of add_sale is not made again in the transaction   *)
(* that decrements the stock.  With two instances creating sales of one    *)
(* book, both can read the stock, both pass quantity <= stock and both     *)
(* commit, which leaves the stock negative; a create whose read and write  *)
(* are not separated by another commit never does.                         *)
(***************************************************************************)
C18_OversoldOnlyByStaleCheck ==
  [][\A c \in Callers :
       (pc[c] = "add_sale_write" /\ pc'[c] = "done" /\ ret'[c].kind = "Created") =>
         LET a == args[c]
         IN  \* the check passed on the stock that was read
             /\ a.sqty <= a.bstock
             \* the decrement is applied whatever the stock is now
             /\ Stock(db', a.bid) = Stock(db, a.bid) - a.sqty
             \* the stock goes below 0 only if it changed since it was read
             /\ Stock(db', a.bid) < 0 => Stock(db, a.bid) # a.bstock
             /\ Stock(db, a.bid) = a.bstock => Stock(db', a.bid) >= 0
    ]_vars

\* both instances read a stock of 50, both created their sale, and the stock
\* of B001 is below 0
C18_Witness ==
  /\ \A c \in Callers :
       /\ pc[c] = "done" /\ ret[c].op = "add_sale" /\ ret[c].kind = "Created"
       /\ args[c].bstock = 50
  /\ Stock(db, "B001") < 0
  /\ Cardinality(db.sale) = 6

(***************************************************************************)
(* C19: stock is conserved and never increases.  Every book starts with    *)
(* its seeded stock; a create that succeeds takes exactly its quantity,    *)
(* which is at least 1, off the stock of its book, whatever happens to the *)
(* sale later; no other step (failed create, update, delete, listing,      *)
(* report) changes the stock of any book or the set of books.              *)
(***************************************************************************)
C19_StockConserved ==
  /\ \A b \in DOMAIN SeedBooks : b \in DOMAIN db.book /\ Stock(db, b) = SeedBooks[b].bstock
  /\ [](\A b \in DOMAIN db.book : Stock(db, b) <= SeedBooks[b].bstock)
  /\ [][/\ DOMAIN db'.book = DOMAIN db.book
        /\ \A b \in DOMAIN db.book :
             IF /\ AddSaleStep(Main) /\ ret'[Main].kind = "Created"
                /\ args[Main].bid = b
             THEN /\ args[Main].sqty >= 1
                  /\ Stock(db', b) = Stock(db, b) - args[Main].sqty
             ELSE Stock(db', b) = Stock(db, b)
       ]_vars

\* a sale of 50 was created and deleted, another sale was updated after
\* that, and the stock of B001 is still 0
C19_Witness ==
  /\ pc[Main] = "done" /\ ret[Main].op = "update_sale" /\ ret[Main].kind = "Updated"
  /\ 5 \notin Sids(db) /\ db.seq = 5
  /\ Stock(db, "B001") = 0
  /\ \A b \in DOMAIN db.book \ {"B001"} : Stock(db, b) = SeedBooks[b].bstock

(***************************************************************************)
(* C20: every stored sale has quantity >= 1 and discount >= 0, and keeps   *)
(* the quantity, date, member and book it was created with: a new row      *)
(* carries the arguments of its create, and a row that stays stored        *)
(* changes at most its discount and its total.                             *)
(***************************************************************************)
C20_SaleFieldsFixed ==
  /\ [](\A s \in db.sale : s.sqty >= 1 /\ s.sdiscount >= 0)
  /\ [][/\ \A t \in db'.sale :
             \/ \E s \in db.sale :
                  /\ s.sid = t.sid /\ s.sqty = t.sqty /\ s.sdate = t.sdate
                  /\ s.mid = t.mid /\ s.bid = t.bid
             \/ /\ t.sid \notin Sids(db)
                /\ AddSaleStep(Main)
                /\ t.sqty = args[Main].sqty /\ t.sdate = args[Main].sdate
                /\ t.mid = args[Main].mid /\ t.bid = args[Main].bid
                /\ t.sdiscount = args[Main].sdiscount
        /\ \A s \in db.sale : \A t \in db'.sale :
             (s.sid = t.sid /\ (s.sdiscount # t.sdiscount \/ s.stotal # t.stotal))
               => UpdateSaleStep(Main) /\ sid[Main] = s.sid
       ]_vars

\* the created sale 5 has had its discount changed from 100 or 1300 to 50
\* and still has the quantity 50 it was created with
C20_Witness ==
  /\ pc[Main] = "done" /\ ret[Main].op = "update_sale" /\ ret[Main].kind = "Updated"
  /\ sid[Main] = 5
  /\ \E s \in db.sale :
       /\ s.sid = 5 /\ s.sqty = 50 /\ s.sdiscount = 50
       /\ s.sdate \in Dates /\ s.mid = "M001" /\ s.bid = "B001"

====
